---------------------------- MODULE Spec2Model ----------------------------
(***************************************************************************)
(* Model of the three dark:-class removal scripts                          *)
(*   scripts/remove-dark-classes.py          ("classes")                   *)
(*   scripts/remove-dark-admin-pages.py      ("admin")                     *)
(*   scripts/remove-dark-from-components.py  ("components")                *)
(* Text is a sequence of one-character strings.  The regular expressions   *)
(* are modelled by left-to-right, non-overlapping scans, as re.sub does.   *)
(***************************************************************************)
EXTENDS Integers, Sequences, FiniteSets, TLC

VARIABLES
    script,     \* which of the three scripts runs
    content,    \* remove_dark_classes: its argument
    filtered,   \*   content after the line filter ('\n'.join(filtered_lines))
    inlined,    \*   content after the substitution of the dark: pattern
    cleaned,    \*   the value returned
    pc,         \*   "input", "once" (called), "twice" (called on its own result)
    files,      \* main: the globbed list of paths (here 1..n)
    disk,       \*   path -> text of the file
    idx,        \*   position of the running for loop in files
    attempted,  \*   the paths whose loop body was entered
    reported,   \*   the paths whose failure was caught and printed
    modified,   \*   count / modified_count
    remaining,  \*   the verification's tally of leftover dark:
    dpc         \*   "loop", "verify", "done", "crashed" (uncaught exception)

fnVars == <<script, content, filtered, inlined, cleaned, pc>>
drvVars == <<files, disk, idx, attempted, reported, modified, remaining, dpc>>
vars == <<script, content, filtered, inlined, cleaned, pc,
          files, disk, idx, attempted, reported, modified, remaining, dpc>>

(***************************************************************************)
(* Characters                                                              *)
(***************************************************************************)
SP == " "
TAB == "\t"
NL == "\n"
SQ == "'"
DQ == "\""
RB == "]"
COMMA == ","

\* The characters Python's \s and str.strip() treat as whitespace (ASCII part).
Whitespace == {SP, TAB, NL, "\r", "\f"}

Quotes == {SQ, DQ}

\* The fixed prefix 'dark:' of the patterns and of the startswith tests.
DarkPrefix == <<"d", "a", "r", "k", ":">>

Scripts == {"classes", "admin", "components"}

(***************************************************************************)
(* String helpers: str.split('\n'), '\n'.join, str.strip, str.startswith   *)
(***************************************************************************)
\* s[i..] starts with p
StartsWithAt(s, i, p) ==
    /\ i + Len(p) - 1 <= Len(s)
    /\ \A k \in 1..Len(p) : s[i + k - 1] = p[k]

StartsWith(s, p) == StartsWithAt(s, 1, p)

RECURSIVE SplitFrom(_, _, _, _)
\* scan s from i; cur is the line being collected, acc the lines found so far
SplitFrom(s, i, cur, acc) ==
    IF i > Len(s) THEN Append(acc, cur)
    ELSE IF s[i] = NL THEN SplitFrom(s, i + 1, <<>>, Append(acc, cur))
    ELSE SplitFrom(s, i + 1, Append(cur, s[i]), acc)

\* content.split('\n'): never empty, "" splits to [""]
Split(s) == SplitFrom(s, 1, <<>>, <<>>)

RECURSIVE JoinFrom(_, _, _)
JoinFrom(ls, i, acc) ==
    IF i > Len(ls) THEN acc
    ELSE JoinFrom(ls, i + 1, (IF i = 1 THEN acc ELSE Append(acc, NL)) \o ls[i])

\* '\n'.join(lines): the empty list joins to ""
Join(ls) == JoinFrom(ls, 1, <<>>)

RECURSIVE LStripFrom(_, _)
LStripFrom(s, i) ==
    IF i > Len(s) THEN <<>>
    ELSE IF s[i] \in Whitespace THEN LStripFrom(s, i + 1)
    ELSE SubSeq(s, i, Len(s))

RECURSIVE RStripTo(_, _)
RStripTo(s, j) ==
    IF j < 1 THEN <<>>
    ELSE IF s[j] \in Whitespace THEN RStripTo(s, j - 1)
    ELSE SubSeq(s, 1, j)

\* line.strip()
Strip(s) == LStripFrom(RStripTo(s, Len(s)), 1)

(***************************************************************************)
(* Step 1: whole-line elision                                              *)
(***************************************************************************)
\* faulty variant: the double-quoted form is forgotten
IsDarkOnlyLine_SingleQuoteOnly(line) ==
    StartsWith(Strip(line), <<SQ>> \o DarkPrefix)

\* stripped.startswith("'dark:") or stripped.startswith('"dark:')
IsDarkOnlyLine(line) ==
    LET stripped == Strip(line)
    IN  \/ StartsWith(stripped, <<SQ>> \o DarkPrefix)
        \/ StartsWith(stripped, <<DQ>> \o DarkPrefix)

RECURSIVE FilterLines(_, _, _)
\* the for loop: continue on a dark-only line, append every other line
FilterLines(lines, i, filtered_lines) ==
    IF i > Len(lines) THEN filtered_lines
    ELSE IF IsDarkOnlyLine(lines[i])
         THEN FilterLines(lines, i + 1, filtered_lines)
         ELSE FilterLines(lines, i + 1, Append(filtered_lines, lines[i]))

ElideLines(s) == Join(FilterLines(Split(s), 1, <<>>))

(***************************************************************************)
(* Step 2: re.sub(r'\s+dark:[^\s\'"]*', '', content)                       *)
(***************************************************************************)
\* faulty variant: a regular space where the pattern has \s
ReWhitespace_SpaceOnly(c) == c = SP

\* \s of the pattern
ReWhitespace(c) == c \in Whitespace

\* faulty variant: the token also stops at ':' (removal segment by segment)
ReTokenChar_StopAtColon(c) == ~ReWhitespace(c) /\ c \notin Quotes /\ c # ":"

\* [^\s\'"] of the pattern
ReTokenChar(c) == ~ReWhitespace(c) /\ c \notin Quotes

RECURSIVE SkipWhitespace(_, _)
\* the end of \s+ : first position >= i of s that holds no whitespace
SkipWhitespace(s, i) ==
    IF i <= Len(s) /\ ReWhitespace(s[i]) THEN SkipWhitespace(s, i + 1) ELSE i

RECURSIVE SkipToken(_, _)
\* the end of [^\s'"]* : first position >= i of s that holds no token character
SkipToken(s, i) ==
    IF i <= Len(s) /\ ReTokenChar(s[i]) THEN SkipToken(s, i + 1) ELSE i

\* faulty variant: the pattern \s+dark:[^\s'"]+ (one or more token characters)
DarkMatchEnd_OneOrMore(s, i) ==
    IF i > Len(s) \/ ~ReWhitespace(s[i]) THEN 0
    ELSE LET j == SkipWhitespace(s, i)
         IN  IF StartsWithAt(s, j, DarkPrefix)
                /\ j + Len(DarkPrefix) <= Len(s)
                /\ ReTokenChar(s[j + Len(DarkPrefix)])
             THEN SkipToken(s, j + Len(DarkPrefix))
             ELSE 0

\* The position after the match of \s+dark:[^\s'"]* that starts at i, or 0 when the
\* pattern does not match at i.  \s+ and the class are greedy; giving back
\* whitespace cannot help, since 'd' is no whitespace, so the greedy match is the
\* only one.
DarkMatchEnd(s, i) ==
    IF i > Len(s) \/ ~ReWhitespace(s[i]) THEN 0
    ELSE LET j == SkipWhitespace(s, i)
         IN  IF StartsWithAt(s, j, DarkPrefix)
             THEN SkipToken(s, j + Len(DarkPrefix))
             ELSE 0

RECURSIVE SubDarkFrom(_, _, _)
\* re.sub: leftmost match first, matches do not overlap, unmatched text is copied
SubDarkFrom(s, i, acc) ==
    IF i > Len(s) THEN acc
    ELSE LET e == DarkMatchEnd(s, i)
         IN  IF e > 0 THEN SubDarkFrom(s, e, acc)
             ELSE SubDarkFrom(s, i + 1, Append(acc, s[i]))

RemoveInline(s) == SubDarkFrom(s, 1, <<>>)

(***************************************************************************)
(* Step 3: whitespace / punctuation clean-up                               *)
(***************************************************************************)
RECURSIVE SkipSpaces(_, _)
\* the end of ' +' : first position >= i of s that holds no regular space
SkipSpaces(s, i) ==
    IF i <= Len(s) /\ s[i] = SP THEN SkipSpaces(s, i + 1) ELSE i

RECURSIVE CollapseFrom(_, _, _)
\* re.sub(r'  +', ' ', content)
CollapseFrom(s, i, acc) ==
    IF i > Len(s) THEN acc
    ELSE IF s[i] = SP /\ i + 1 <= Len(s) /\ s[i + 1] = SP
         THEN CollapseFrom(s, SkipSpaces(s, i), Append(acc, SP))
         ELSE CollapseFrom(s, i + 1, Append(acc, s[i]))

CollapseSpaces(s) == CollapseFrom(s, 1, <<>>)

RECURSIVE DropSpaceFrom(_, _, _, _)
\* re.sub(' c', 'c', content) for one character c
DropSpaceFrom(s, c, i, acc) ==
    IF i > Len(s) THEN acc
    ELSE IF s[i] = SP /\ i + 1 <= Len(s) /\ s[i + 1] = c
         THEN DropSpaceFrom(s, c, i + 2, Append(acc, c))
         ELSE DropSpaceFrom(s, c, i + 1, Append(acc, s[i]))

DropSpaceBefore(s, c) == DropSpaceFrom(s, c, 1, <<>>)

\* faulty variant: the runs of spaces are collapsed last instead of first
CleanupClasses_CollapseLast(s) ==
    CollapseSpaces(DropSpaceBefore(DropSpaceBefore(DropSpaceBefore(
        DropSpaceBefore(s, SQ), DQ), RB), COMMA))

\* faulty variant: the last substitution, ' ,' -> ',', is left out
CleanupClasses_NoComma(s) ==
    DropSpaceBefore(DropSpaceBefore(DropSpaceBefore(CollapseSpaces(s), SQ), DQ), RB)

\* remove-dark-classes.py: the five substitutions in their order
CleanupClasses(s) ==
    DropSpaceBefore(DropSpaceBefore(DropSpaceBefore(DropSpaceBefore(
        CollapseSpaces(s), SQ), DQ), RB), COMMA)

\* remove-dark-from-components.py: four substitutions, no ' ]'
CleanupComponents(s) ==
    DropSpaceBefore(DropSpaceBefore(DropSpaceBefore(
        CollapseSpaces(s), SQ), DQ), COMMA)

(***************************************************************************)
(* remove_dark_classes of each script, with its intermediate values        *)
(***************************************************************************)
AfterElision(sc, s) == IF sc = "components" THEN s ELSE ElideLines(s)

AfterInline(sc, s) == RemoveInline(AfterElision(sc, s))

remove_dark_classes(sc, s) ==
    CASE sc = "classes" -> CleanupClasses(AfterInline(sc, s))
      [] sc = "admin" -> AfterInline(sc, s)
      [] sc = "components" -> CleanupComponents(AfterInline(sc, s))


(***************************************************************************)
(* Inputs of the transformation                                            *)
(***************************************************************************)
\* longest input, counted in pieces
MaxPieces == 4

\* most class tokens in a generated class string
MaxTokens == 3

\* every delimiter the three passes look at, the prefix, and one other letter
Pieces ==
    {<<SP>>, <<TAB>>, <<NL>>, <<SQ>>, <<DQ>>, <<RB>>, <<COMMA>>, DarkPrefix, <<"x">>}

RECURSIVE PieceStrings(_)
\* the concatenations of at most n pieces
PieceStrings(n) ==
    IF n = 0 THEN {<<>>}
    ELSE LET shorter == PieceStrings(n - 1)
         IN  shorter \cup {s \o p : s \in shorter, p \in Pieces}

PlainToken == <<"x">>
DarkTokens == {DarkPrefix \o <<"x">>, DarkPrefix \o <<"h", ":", "x">>}
TokenWords == {PlainToken} \cup DarkTokens

RECURSIVE TokenLists(_)
\* the token lists of length 1..n
TokenLists(n) ==
    IF n = 1 THEN {<<t>> : t \in TokenWords}
    ELSE LET shorter == TokenLists(n - 1)
         IN  shorter \cup {Append(ts, t) : ts \in shorter, t \in TokenWords}

RECURSIVE JoinTokens(_, _, _)
JoinTokens(ts, i, acc) ==
    IF i > Len(ts) THEN acc
    ELSE JoinTokens(ts, i + 1, (IF i = 1 THEN acc ELSE Append(acc, SP)) \o ts[i])

\* a class attribute value: the tokens, single-space separated, between quotes q
ClassString(q, ts) == <<q>> \o JoinTokens(ts, 1, <<>>) \o <<q>>

ClassTokenLists == TokenLists(MaxTokens)

ClassStrings == {ClassString(q, ts) : q \in Quotes, ts \in ClassTokenLists}

\* className="text-white dark:text-black px-2"
InlineExample ==
    <<"c", "l", "a", "s", "s", "N", "a", "m", "e", "=", DQ, "t", "e", "x",
      "t", "-", "w", "h", "i", "t", "e", SP, "d", "a", "r", "k", ":", "t",
      "e", "x", "t", "-", "b", "l", "a", "c", "k", SP, "p", "x", "-", "2",
      DQ>>

\* className="text-white px-2"
InlineExampleCleaned ==
    <<"c", "l", "a", "s", "s", "N", "a", "m", "e", "=", DQ, "t", "e", "x",
      "t", "-", "w", "h", "i", "t", "e", SP, "p", "x", "-", "2", DQ>>

\* ['a', 'dark:b' , 'c']
ListExample ==
    <<"[", SQ, "a", SQ, COMMA, SP, SQ, "d", "a", "r", "k", ":", "b", SQ, SP,
      COMMA, SP, SQ, "c", SQ, RB>>

\* ['a', , 'c']
ListExampleEmptySlot ==
    <<"[", SQ, "a", SQ, COMMA, SP, COMMA, SP, SQ, "c", SQ, RB>>

\* ['a','dark:b','c']
ListExampleCleaned ==
    <<"[", SQ, "a", SQ, COMMA, SQ, "d", "a", "r", "k", ":", "b", SQ, COMMA,
      SQ, "c", SQ, RB>>

\* three lines, the second being   'dark:bg-gray-800',
LineExample ==
    <<"x", NL, SP, SP, SQ, "d", "a", "r", "k", ":", "b", "g", "-", "g", "r",
      "a", "y", "-", "8", "0", "0", SQ, COMMA, NL, "y">>

\* the first and the third line of LineExample
LineExampleCleaned ==
    <<"x", NL, "y">>

Examples == {InlineExample, ListExample, LineExample}

Inputs == PieceStrings(MaxPieces) \cup ClassStrings \cup Examples

(***************************************************************************)
(* Specification of the transformation: remove_dark_classes is called on   *)
(* an input, and then once more on what it returned (a second run of the   *)
(* script over the file it rewrote).                                       *)
(***************************************************************************)
IdleDriver ==
    /\ files = <<>>
    /\ disk = <<>>
    /\ idx = 0
    /\ attempted = {}
    /\ reported = {}
    /\ modified = 0
    /\ remaining = 0
    /\ dpc = "idle"

Init ==
    /\ script \in Scripts
    /\ content \in Inputs
    /\ filtered = <<>>
    /\ inlined = <<>>
    /\ cleaned = <<>>
    /\ pc = "input"
    /\ IdleDriver

\* one call remove_dark_classes(s): the value after each step is kept
Transform(s) ==
    /\ content' = s
    /\ filtered' = AfterElision(script, s)
    /\ inlined' = AfterInline(script, s)
    /\ cleaned' = remove_dark_classes(script, s)

Call ==
    /\ pc = "input"
    /\ Transform(content)
    /\ pc' = "once"
    /\ UNCHANGED <<script, drvVars>>

CallAgain ==
    /\ pc = "once"
    /\ Transform(cleaned)
    /\ pc' = "twice"
    /\ UNCHANGED <<script, drvVars>>

Next == Call \/ CallAgain

Spec == Init /\ [][Next]_vars

(***************************************************************************)
(* Specification of the drivers: main of each script over the files found  *)
(***************************************************************************)
\* number of files the glob finds
NFiles == 2

\* x / x dark:x / 'dark:x / x  x / "dark:x x"
DriverContents ==
    { <<"x">>,
      <<"x", SP>> \o DarkPrefix \o <<"x">>,
      <<SQ>> \o DarkPrefix \o <<"x">>,
      <<"x", SP, SP, "x">>,
      <<DQ>> \o DarkPrefix \o <<"x", SP, "x", DQ>> }

\* \w of Python's re, for \b
WordChars ==
    {"a", "b", "c", "d", "e", "f", "g", "h", "i", "j", "k", "l", "m", "n", "o",
     "p", "q", "r", "s", "t", "u", "v", "w", "x", "y", "z", "N", "_",
     "0", "1", "2", "3", "4", "5", "6", "7", "8", "9"}

\* len(re.findall(r'\bdark:', content)): 'd' is a word character, so \b holds
\* at the start of the text and after a character that is no word character
CountRemaining(s) ==
    Cardinality({i \in 1..Len(s) :
        /\ StartsWithAt(s, i, DarkPrefix)
        /\ (i = 1 \/ s[i - 1] \notin WordChars)})

IdleTransform ==
    /\ content = <<>>
    /\ filtered = <<>>
    /\ inlined = <<>>
    /\ cleaned = <<>>
    /\ pc = "idle"

InitDriver ==
    /\ script \in Scripts
    /\ files = [i \in 1..NFiles |-> i]
    /\ disk \in [1..NFiles -> DriverContents]
    /\ idx = 1
    /\ attempted = {}
    /\ reported = {}
    /\ modified = 0
    /\ remaining = 0
    /\ dpc = "loop"
    /\ IdleTransform

\* what opening, reading and writing the file of one iteration do
IoOutcomes == {"ok", "read_error", "write_error"}

\* remove-dark-admin-pages.py: one iteration of the loop of main, that is one
\* call of process_file, whose body is inside try / except Exception
ProcessFileCaught ==
    /\ dpc = "loop"
    /\ script = "admin"
    /\ idx <= Len(files)
    /\ \E io \in IoOutcomes :
        LET f == files[idx]
            original == disk[f]
            new == remove_dark_classes(script, original)
        IN  /\ attempted' = attempted \cup {f}
            /\ IF io = "read_error" \/ (io = "write_error" /\ new # original)
               THEN /\ reported' = reported \cup {f}
                    /\ UNCHANGED <<disk, modified>>
               ELSE IF new # original
               THEN /\ disk' = [disk EXCEPT ![f] = new]
                    /\ modified' = modified + 1
                    /\ UNCHANGED reported
               ELSE UNCHANGED <<disk, modified, reported>>
    /\ idx' = idx + 1
    /\ UNCHANGED <<script, files, remaining, dpc, fnVars>>

\* remove-dark-classes.py and remove-dark-from-components.py: one iteration of
\* the first loop of main; open, read and write are not inside any try, so an
\* exception leaves main and ends the script
ProcessFileUncaught ==
    /\ dpc = "loop"
    /\ script \in {"classes", "components"}
    /\ idx <= Len(files)
    /\ \E io \in IoOutcomes :
        LET f == files[idx]
            original == disk[f]
            new == remove_dark_classes(script, original)
        IN  /\ attempted' = attempted \cup {f}
            /\ IF io = "read_error" \/ (io = "write_error" /\ new # original)
               THEN /\ dpc' = "crashed"
                    /\ UNCHANGED <<disk, modified, idx>>
               ELSE /\ idx' = idx + 1
                    /\ UNCHANGED dpc
                    /\ IF new # original
                       THEN /\ disk' = [disk EXCEPT ![f] = new]
                            /\ modified' = IF script = "components"
                                           THEN modified + 1 ELSE modified
                       ELSE UNCHANGED <<disk, modified>>
    /\ UNCHANGED <<script, files, reported, remaining, fnVars>>

\* the first loop is over: the admin script prints its count and ends, the other
\* two go on to verify
EndLoop ==
    /\ dpc = "loop"
    /\ idx > Len(files)
    /\ IF script = "admin"
       THEN dpc' = "done" /\ UNCHANGED idx
       ELSE dpc' = "verify" /\ idx' = 1
    /\ UNCHANGED <<script, files, disk, attempted, reported, modified, remaining,
                   fnVars>>

\* one iteration of the verification loop: the file is read again (not inside
\* any try) and its \bdark: matches are added to remaining
VerifyFile ==
    /\ dpc = "verify"
    /\ idx <= Len(files)
    /\ \E io \in {"ok", "read_error"} :
        IF io = "read_error"
        THEN dpc' = "crashed" /\ UNCHANGED <<idx, remaining>>
        ELSE /\ remaining' = remaining + CountRemaining(disk[files[idx]])
             /\ idx' = idx + 1
             /\ UNCHANGED dpc
    /\ UNCHANGED <<script, files, disk, attempted, reported, modified, fnVars>>

\* the verdict is printed: nothing is rolled back
EndVerify ==
    /\ dpc = "verify"
    /\ idx > Len(files)
    /\ dpc' = "done"
    /\ UNCHANGED <<script, files, disk, idx, attempted, reported, modified,
                   remaining, fnVars>>

NextDriver ==
    \/ ProcessFileCaught
    \/ ProcessFileUncaught
    \/ EndLoop
    \/ VerifyFile
    \/ EndVerify

SpecDriver == InitDriver /\ [][NextDriver]_vars

(***************************************************************************)
(* Vocabulary of the properties                                            *)
(***************************************************************************)
Contains(s, p) == \E i \in 1..Len(s) : StartsWithAt(s, i, p)

\* a whitespace character immediately followed by 'dark:'
HasWhitespaceDark(s) ==
    \E i \in 1..Len(s) : s[i] \in Whitespace /\ StartsWithAt(s, i + 1, DarkPrefix)

\* whitespace, 'dark:', and then whitespace, a quote or the end of the text
HasBareDark(s) ==
    \E i \in 1..Len(s) :
        /\ s[i] \in Whitespace
        /\ StartsWithAt(s, i + 1, DarkPrefix)
        /\ LET after == i + 1 + Len(DarkPrefix)
           IN  after > Len(s) \/ s[after] \in Whitespace \cup Quotes

\* 'dark:' at the start of the text or right after a whitespace character (which
\* includes the start of a line) or a quote
HasStandaloneDark(s) ==
    \E i \in 1..Len(s) :
        /\ StartsWithAt(s, i, DarkPrefix)
        /\ (i = 1 \/ s[i - 1] \in Whitespace \cup Quotes)

\* the elements of s at the positions in the set I, in their order in s
Pick(s, I) ==
    [k \in 1..Cardinality(I) |->
        s[CHOOSE i \in I : Cardinality({j \in I : j < i}) = k - 1]]

\* only whitespace, then a quote, then 'dark:'
StandaloneTokenLine(line) ==
    \E i \in 1..Len(line) :
        /\ \A k \in 1..(i - 1) : line[k] \in Whitespace
        /\ line[i] \in Quotes
        /\ StartsWithAt(line, i + 1, DarkPrefix)

\* position p of s lies in a run: whitespace (one or more), 'dark:', then zero or
\* more characters that are neither whitespace nor a quote
InDarkRun(s, p) ==
    \E k \in 2..Len(s) :
        /\ s[k - 1] \in Whitespace
        /\ StartsWithAt(s, k, DarkPrefix)
        /\ \/ p < k /\ \A m \in p..(k - 1) : s[m] \in Whitespace
           \/ p >= k /\ \A m \in (k + Len(DarkPrefix))..p :
                            s[m] \notin Whitespace \cup Quotes

\* remove_dark_classes has been called
Called == pc \in {"once", "twice"}

IsDarkToken(t) == StartsWith(t, DarkPrefix)

NotDarkToken(t) == ~IsDarkToken(t)

(***************************************************************************)
(* Properties of the transformation                                        *)
(***************************************************************************)
\* C1: in remove-dark-classes.py, applying remove_dark_classes to its own output
\* gives that output again: f(f(s)) = f(s).
C1_Idempotent ==
    (pc = "twice" /\ script = "classes") => cleaned = content

\* C2: in remove-dark-classes.py, an input without the substring 'dark:' is
\* returned unchanged.
C2_NoOpOnClean ==
    (pc = "once" /\ script = "classes" /\ ~Contains(content, DarkPrefix))
        => cleaned = content

\* C3: the output of remove_dark_classes of remove-dark-classes.py holds no
\* 'dark:' right after whitespace, a quote, or the start of a line or of the text.
C3_TokenElimination ==
    (Called /\ script = "classes") => ~HasStandaloneDark(cleaned)

C8_BareDarkKept ==
    Called => (HasBareDark(filtered) => HasBareDark(inlined))

\* C8 as amended: the inline pass removes exactly the runs of one or more
\* whitespace characters, 'dark:', and ZERO or more characters that are neither
\* whitespace nor a quote; so a bare 'dark:' after whitespace goes too, with the
\* whitespace in front of it.
C8_RunsRemoved ==
    Called =>
        inlined = Pick(filtered, {p \in 1..Len(filtered) : ~InDarkRun(filtered, p)})

C8_Witness ==
    /\ pc = "once"
    /\ filtered = <<"x", SP>> \o DarkPrefix \o <<DQ>>
    /\ inlined = <<"x", DQ>>

\* C9: the output of remove_dark_classes of remove-dark-classes.py holds no two
\* consecutive spaces and no space followed by ' " ] or ,
C9_Normalized ==
    (Called /\ script = "classes") =>
        \A i \in 1..(Len(cleaned) - 1) :
            ~(cleaned[i] = SP /\ cleaned[i + 1] \in {SP, SQ, DQ, RB, COMMA})

C9_Witness ==
    /\ pc = "once"
    /\ script = "classes"
    /\ content = <<"x", SP, SP, SQ>>
    /\ cleaned = <<"x", SQ>>

\* C10: in all three scripts the output of remove_dark_classes holds no
\* whitespace character immediately followed by 'dark:'.
C10_NoWhitespaceDark ==
    Called => ~HasWhitespaceDark(cleaned)

C10_Witness ==
    /\ pc = "once"
    /\ content = <<TAB>> \o DarkPrefix \o <<NL>> \o DarkPrefix
    /\ cleaned = <<>>

(***************************************************************************)
(* Property of the drivers                                                 *)
(***************************************************************************)
\* C7: in each script, a read or write failure on one file never prevents the
\* processing of the files after it: when the script has ended, the loop body
\* was entered for every file of the list.
C7_FailureIsolation ==
    dpc \in {"done", "crashed"} => \A i \in 1..Len(files) : files[i] \in attempted

=============================================================================
